---- MODULE Spec2Model ----
(***************************************************************************)
(* Model of the CoreDump Uploader (coredump_uploader.c): the reset         *)
(* classifier, the image locator/sizer and the upload orchestrator         *)
(* coredump_upload, stepped from one external call (platform primitive or  *)
(* host callback) to the next.  The platform and the host are the          *)
(* environment: every primitive and callback may return OK or an error.    *)
(***************************************************************************)
EXTENDS Integers, Sequences, FiniteSets, TLC

(***************************************************************************)
(* Bounds of the model.                                                    *)
(***************************************************************************)
\* size_t is modelled with SizeBits bits (arithmetic modulo 2^SizeBits)
SizeBits == 12
\* largest image size of the exhaustive sweep
MaxSize == 5
\* largest desired_chunk_size of the exhaustive sweep
MaxDesired == 4
\* caller-built descriptors: largest chunk_size, chunk_count, last_chunk_size
MaxArbChunk == 2
MaxArbCount == 2
MaxArbLast == 3
\* calls of coredump_uploader_get_info: largest image size and desired_chunk_size
MaxInfoSize == 12
MaxInfoDesired == 10
\* boots of the application followed, calls of coredump_uploader_need_upload tried
\* desired_chunk_size values tried just below 2^SizeBits: SIZE_MAX - 0 .. MaxBelowMax
MaxBelowMax == 3
MaxBoots == 2
\* messages waiting in the queue of the queue-based application
MaxQueued == 2
MaxNeedCalls == 3

SizeMod == 2 ^ SizeBits

(***************************************************************************)
(* Status codes (esp_err_t values are kept symbolic).                      *)
(***************************************************************************)
ESP_OK == "ESP_OK"
ESP_FAIL == "ESP_FAIL"
ESP_ERR_NO_MEM == "ESP_ERR_NO_MEM"
ESP_ERR_INVALID_ARG == "ESP_ERR_INVALID_ARG"
ESP_ERR_NOT_FOUND == "ESP_ERR_NOT_FOUND"
ESP_ERR_TIMEOUT == "ESP_ERR_TIMEOUT"
\* not-yet-returned marker of the upload call
NONE == "NONE"
NULL == "NULL"

\* the non-OK codes the environment (platform, host callbacks) may return
ErrCodes == {ESP_FAIL, ESP_ERR_TIMEOUT}
Status == {ESP_OK} \cup ErrCodes

\* variant: a default chunk of 384 bytes
COREDUMP_DEFAULT_CHUNK_SIZE_Half == 3 * 128

COREDUMP_DEFAULT_CHUNK_SIZE == 3 * 256

(***************************************************************************)
(* coredump_uploader_info_t; nonnull = FALSE stands for a NULL pointer.    *)
(***************************************************************************)
NullInfo ==
  [nonnull |-> FALSE, flash_addr |-> 0, total_size |-> 0, chunk_size |-> 0,
   chunk_count |-> 0, last_chunk_size |-> 0, use_base64 |-> FALSE,
   b64_total_size |-> 0, b64_chunk_size |-> 0, b64_last_chunk_size |-> 0]

\* variant: the encoded size is rounded down
_b64_encoded_size_Floor(in_len) == (((in_len % SizeMod) \div 3) * 4) % SizeMod

\* static inline size_t _b64_encoded_size(size_t in_len)
_b64_encoded_size(in_len) == ((((in_len + 2) % SizeMod) \div 3) * 4) % SizeMod

\* variant: the chunk size is rounded up to a multiple of 3
EffectiveChunk_RoundUp(desired_chunk_size, use_base64) ==
  LET chunk == IF desired_chunk_size # 0 THEN desired_chunk_size
               ELSE COREDUMP_DEFAULT_CHUNK_SIZE
  IN  IF use_base64 /\ (chunk % 3) # 0 THEN chunk + (3 - (chunk % 3)) ELSE chunk

\* variant: the chunk size is not adjusted for Base64
EffectiveChunk_NoRound(desired_chunk_size, use_base64) ==
  IF desired_chunk_size # 0 THEN desired_chunk_size ELSE COREDUMP_DEFAULT_CHUNK_SIZE

\* chunk-size adjustment of coredump_uploader_get_info
EffectiveChunk(desired_chunk_size, use_base64) ==
  LET chunk == IF desired_chunk_size # 0 THEN desired_chunk_size
               ELSE COREDUMP_DEFAULT_CHUNK_SIZE
  IN  IF use_base64 /\ (chunk % 3) # 0
      THEN IF chunk - (chunk % 3) = 0 THEN 3 ELSE chunk - (chunk % 3)
      ELSE chunk

\* variant: the chunk count is rounded down
ChunkCount_Floor(size, chunk) == (size % SizeMod) \div chunk

\* size_t chunk_count = (size + chunk - 1) / chunk;
ChunkCount(size, chunk) == ((size + chunk - 1) % SizeMod) \div chunk

\* variant: a zero remainder is not replaced by the chunk size
LastChunkSize_Remainder(size, chunk) == size % chunk

\* size_t last_chunk_size = (size % chunk) ? (size % chunk) : chunk;
LastChunkSize(size, chunk) == IF (size % chunk) # 0 THEN size % chunk ELSE chunk

\* the descriptor coredump_uploader_get_info fills in for an image (addr, size)
FillInfo(addr, size, desired_chunk_size, use_base64) ==
  LET chunk == EffectiveChunk(desired_chunk_size, use_base64)
      chunk_count == ChunkCount(size, chunk)
      last_chunk_size == LastChunkSize(size, chunk)
      b64c == _b64_encoded_size(chunk)
      b64l == _b64_encoded_size(last_chunk_size)
  IN  [nonnull |-> TRUE, flash_addr |-> addr, total_size |-> size,
       chunk_size |-> chunk, chunk_count |-> chunk_count,
       last_chunk_size |-> last_chunk_size, use_base64 |-> use_base64,
       b64_chunk_size |-> IF use_base64 THEN b64c ELSE 0,
       b64_last_chunk_size |-> IF use_base64 THEN b64l ELSE 0,
       b64_total_size |->
         IF use_base64
         THEN IF chunk_count > 1
              THEN (b64c * (chunk_count - 1) + b64l) % SizeMod
              ELSE b64l
         ELSE 0]

\* the contents of *out before the call, as far as the variants need them
StaleInfo ==
  [nonnull |-> TRUE, flash_addr |-> 7, total_size |-> 7, chunk_size |-> 7,
   chunk_count |-> 7, last_chunk_size |-> 7, use_base64 |-> TRUE,
   b64_total_size |-> 7, b64_chunk_size |-> 7, b64_last_chunk_size |-> 7]

\* variant: *out is not zeroed before the platform is queried
coredump_uploader_get_info_NoMemset(out_nonnull, loc_err, addr, size, desired_chunk_size, use_base64) ==
  IF ~out_nonnull THEN [err |-> ESP_ERR_INVALID_ARG, out |-> NullInfo]
  ELSE IF loc_err # ESP_OK THEN [err |-> loc_err, out |-> StaleInfo]
  ELSE IF size = 0 THEN [err |-> ESP_ERR_NOT_FOUND, out |-> StaleInfo]
  ELSE [err |-> ESP_OK, out |-> FillInfo(addr, size, desired_chunk_size, use_base64)]

\* variant: an image of size 0 is not rejected
coredump_uploader_get_info_NoSizeCheck(out_nonnull, loc_err, addr, size, desired_chunk_size, use_base64) ==
  IF ~out_nonnull THEN [err |-> ESP_ERR_INVALID_ARG, out |-> NullInfo]
  ELSE IF loc_err # ESP_OK THEN [err |-> loc_err, out |-> [NullInfo EXCEPT !.nonnull = TRUE]]
  ELSE [err |-> ESP_OK, out |-> FillInfo(addr, size, desired_chunk_size, use_base64)]

\* coredump_uploader_get_info: out_nonnull is (out != NULL), (loc_err, addr,
\* size) is the answer of esp_core_dump_image_get
coredump_uploader_get_info(out_nonnull, loc_err, addr, size, desired_chunk_size, use_base64) ==
  IF ~out_nonnull THEN [err |-> ESP_ERR_INVALID_ARG, out |-> NullInfo]
  ELSE IF loc_err # ESP_OK THEN [err |-> loc_err, out |-> [NullInfo EXCEPT !.nonnull = TRUE]]
  ELSE IF size = 0 THEN [err |-> ESP_ERR_NOT_FOUND, out |-> [NullInfo EXCEPT !.nonnull = TRUE]]
  ELSE [err |-> ESP_OK, out |-> FillInfo(addr, size, desired_chunk_size, use_base64)]

\* mbedtls_base64_encode(dst, dlen, &olen, src, slen): its return code and *olen
mbedtls_base64_encode(dlen, slen) ==
  IF slen = 0 THEN [ret |-> 0, olen |-> 0]
  ELSE LET n == 4 * ((slen \div 3) + (IF slen % 3 # 0 THEN 1 ELSE 0))
       IN  IF dlen < n + 1 THEN [ret |-> -42, olen |-> n + 1]
           ELSE [ret |-> 0, olen |-> n]

\* the padding character '=', after the 64 characters of the alphabet
\* (a character of the alphabet is written as its index 0..63)
\* esp_reset_reason_t
ResetReasons ==
  {"ESP_RST_UNKNOWN", "ESP_RST_POWERON", "ESP_RST_EXT", "ESP_RST_SW",
   "ESP_RST_PANIC", "ESP_RST_INT_WDT", "ESP_RST_TASK_WDT", "ESP_RST_WDT",
   "ESP_RST_DEEPSLEEP", "ESP_RST_BROWNOUT", "ESP_RST_SDIO", "ESP_RST_USB",
   "ESP_RST_JTAG", "ESP_RST_EFUSE", "ESP_RST_PWR_GLITCH", "ESP_RST_CPU_LOCKUP"}

\* variant: an unknown reset cause does not ask for an upload
coredump_uploader_need_upload_NoUnknown(reason) ==
  reason \in {"ESP_RST_PANIC", "ESP_RST_INT_WDT", "ESP_RST_TASK_WDT", "ESP_RST_WDT"}

\* bool coredump_uploader_need_upload(void), reason being esp_reset_reason()
coredump_uploader_need_upload(reason) ==
  CASE reason \in {"ESP_RST_PANIC", "ESP_RST_INT_WDT", "ESP_RST_TASK_WDT",
                   "ESP_RST_WDT", "ESP_RST_UNKNOWN"} -> TRUE
    [] reason \in {"ESP_RST_POWERON", "ESP_RST_SW", "ESP_RST_DEEPSLEEP"} -> FALSE
    [] OTHER -> FALSE

B64Pad == 64
\* the NUL terminator mbedtls_base64_encode appends
NulChar == 65
\* a byte of a block malloc returned, never written since
Uninit == -1

\* the characters mbedtls_base64_encode writes for the bytes src (RFC 4648)
Base64Chars(src) ==
  LET n == Len(src)
      byte(m) == IF m <= n THEN src[m] ELSE 0
  IN  [k \in 1..(4 * ((n + 2) \div 3)) |->
         LET g == (k - 1) \div 4
             j == (k - 1) % 4
             b1 == byte(3 * g + 1)
             b2 == byte(3 * g + 2)
             b3 == byte(3 * g + 3)
         IN  CASE j = 0 -> b1 \div 4
               [] j = 1 -> (b1 % 4) * 16 + (b2 \div 16)
               [] j = 2 -> IF 3 * g + 2 > n THEN B64Pad
                           ELSE (b2 % 16) * 4 + (b3 \div 64)
               [] j = 3 -> IF 3 * g + 3 > n THEN B64Pad ELSE b3 % 64]

\* the byte the flash holds at address a
FlashByte(seed, a) == (a * 37 + seed) % 256
\* what esp_flash_read delivers for n bytes from address a
FlashBytes(seed, a, n) == [k \in 1..n |-> FlashByte(seed, a + k - 1)]

\* a block of n bytes as malloc returns it
FreshBlock(n) == [k \in 1..n |-> Uninit]
\* a block after bytes have been stored at its start
Store(block, bytes) == bytes \o SubSeq(block, Len(bytes) + 1, Len(block))

(***************************************************************************)
(* State.                                                                  *)
(***************************************************************************)
VARIABLES
  cbs,               \* argument cbs: which slots are non-NULL
  arg_info,          \* argument info as passed by the caller
  image,             \* the coredump partition: [addr, size]; size 0 = no image
  info,              \* the pointer `info` of coredump_upload
  pc,                \* position of the call
  chunk_index,       \* loop cursor
  bytes_to_read,     \* raw length of the current chunk
  len_to_send,       \* length handed to write / progress
  err,               \* local err
  ret,               \* value returned by coredump_upload (NONE while running)
  read_chunk,        \* pointer read_chunk
  b64_buf,           \* pointer b64_buf
  b64_buf_capacity,  \* capacity of b64_buf
  heap,              \* state of each heap block
  log,               \* external calls made so far, in order
  flash,             \* contents of the flash (a seed of FlashByte)
  read_data,         \* contents of the block read_chunk points to
  b64_data,          \* contents of the block b64_buf points to
  data_to_send,      \* pointer data_to_send: which buffer is handed to write
  wire,              \* the payloads handed to the successive write calls
  gi,                \* a call of coredump_uploader_get_info by the application
  progress_info,     \* argument info of the latest progress call
  app,               \* the application: position in app_main, reset reason, ...
  mqtt_ctx,          \* mqtt_coredump_ctx_t of check_and_upload_coredump
  published          \* the messages handed to publish_message, in order

vars == <<cbs, arg_info, image, info, pc, chunk_index, bytes_to_read,
          len_to_send, err, ret, read_chunk, b64_buf, b64_buf_capacity,
          heap, log, flash, read_data, b64_data, data_to_send, wire, gi,
          progress_info, app, mqtt_ctx, published>>

Blocks == {"R", "B"}

\* one external call: op, chunk index (-1 if none), flash address, raw length,
\* length handed over, status returned
Ev(op, i, off, raw, n, res) ==
  [op |-> op, i |-> i, off |-> off, raw |-> raw, n |-> n, res |-> res]

(***************************************************************************)
(* Inputs.                                                                 *)
(***************************************************************************)
ImageAddrs == {64}
\* the flash contents tried
FlashSeeds == {11, 200}

\* no call of coredump_uploader_get_info by the application
GiIdle ==
  [pc |-> "idle", out_nonnull |-> FALSE, desired_chunk_size |-> 0,
   use_base64 |-> FALSE, loc_err |-> NONE, err |-> NONE, out |-> NullInfo]

\* the caller's output structure before the call: not initialised
DirtyInfo ==
  [nonnull |-> TRUE, flash_addr |-> 7, total_size |-> 7, chunk_size |-> 7,
   chunk_count |-> 7, last_chunk_size |-> 7, use_base64 |-> TRUE,
   b64_total_size |-> 7, b64_chunk_size |-> 7, b64_last_chunk_size |-> 7]

\* the arguments of the calls of coredump_uploader_get_info tried
InfoSizes == (0..MaxInfoSize) \cup {1000}
InfoDesired == (0..MaxInfoDesired) \cup {300, 1024}
GiCalls ==
  {[GiIdle EXCEPT !.pc = "call", !.out_nonnull = o, !.desired_chunk_size = d,
                  !.use_base64 = b, !.out = IF o THEN DirtyInfo ELSE NullInfo] :
     o \in BOOLEAN, d \in InfoDesired, b \in BOOLEAN}

\* no application: coredump_upload is called on its own
AppNone ==
  [pc |-> "none", boot |-> 0, reset_reason |-> NONE, desired_chunk_size |-> 0,
   mqtt_client |-> FALSE, need |-> NONE, answers |-> << >>, get_info_err |-> NONE,
   uploads |-> 0, upload_ret |-> NONE, boot_image |-> 0,
   queued |-> FALSE, mqtt_queue |-> NULL, handler_queue |-> NULL,
   queue_len |-> 0, queue_ops |-> {}]
\* mqtt_coredump_ctx_t mqtt_ctx = { .part_count = 0, .part_quantity = 0 }
NoCtx == [part_count |-> 0, part_quantity |-> 0]

\* coredump_upload runs inside check_and_upload_coredump
InApp == app.pc = "uploading"

\* what the callbacks of the application can return; any status otherwise
CbResults(cb) ==
  IF InApp THEN (IF cb = "write" THEN {ESP_OK, ESP_FAIL} ELSE {ESP_OK})
  ELSE Status

\* publish_message: false without a client or when the client refuses
PublishOutcomes ==
  IF ~InApp THEN {FALSE}
  ELSE IF app.mqtt_client THEN BOOLEAN ELSE {FALSE}

\* topic ctx->topic, and topic "%s/%d" of ctx->topic and a part number
BaseTopic == -1
PartTopic(part_count) == part_count
\* one call publish_message(topic, data, len, 1) and its result
Message(topic, len, ok) == [topic |-> topic, len |-> len, ok |-> ok]

\* variant: a part is counted only when its publish succeeded
NextPartCount_OnSuccess(part_count, ok) == IF ok THEN part_count + 1 ELSE part_count

\* ctx->part_count++ at the head of mqtt_coredump_write
NextPartCount(part_count, ok) == part_count + 1

\* variant: the result of publish_message is ignored
mqtt_coredump_write_IgnoreFailure(ok) == ESP_OK

\* return value of mqtt_coredump_write given the result of publish_message
mqtt_coredump_write(ok) == IF ok THEN ESP_OK ELSE ESP_FAIL

CbsValues ==
  {[nonnull |-> FALSE, start |-> FALSE, write |-> FALSE, progress |-> FALSE, end |-> FALSE]}
  \cup [nonnull : {TRUE}, start : BOOLEAN, write : BOOLEAN, progress : BOOLEAN, end : BOOLEAN]

\* the end-to-end scenarios: image size, desired_chunk_size, use_base64
Scenarios ==
  {[size |-> 1000, desired |-> 300, b64 |-> FALSE],
   [size |-> 1000, desired |-> 300, b64 |-> TRUE],
   [size |-> 5, desired |-> 0, b64 |-> FALSE]}

\* descriptors built by the caller without coredump_uploader_get_info
ArbInfos(addr, size) ==
  {[NullInfo EXCEPT !.nonnull = TRUE, !.flash_addr = addr, !.total_size = size,
                    !.chunk_size = cs, !.chunk_count = cc,
                    !.last_chunk_size = ls, !.use_base64 = b] :
     cs \in 0..MaxArbChunk, cc \in 0..MaxArbCount, ls \in 0..MaxArbLast, b \in BOOLEAN}

\* (image, info argument) pairs
Inputs ==
  LET a == CHOOSE x \in ImageAddrs : TRUE
  IN  \* info = NULL
      {[image |-> [addr |-> a, size |-> s], info |-> NullInfo] : s \in (0..MaxSize) \cup {1000}}
      \cup
      \* info obtained from coredump_uploader_get_info for the present image
      {[image |-> [addr |-> a, size |-> s], info |-> FillInfo(a, s, d, b)] :
         s \in 1..MaxSize, d \in 0..MaxDesired, b \in BOOLEAN}
      \cup
      {[image |-> [addr |-> a, size |-> sc.size],
        info |-> FillInfo(a, sc.size, sc.desired, sc.b64)] : sc \in Scenarios}
      \cup
      \* info filled in by the caller
      {[image |-> [addr |-> a, size |-> MaxSize], info |-> d] : d \in ArbInfos(a, MaxSize)}

Init ==
  /\ cbs \in CbsValues
  /\ \E in \in Inputs : image = in.image /\ arg_info = in.info
  /\ info = arg_info
  /\ pc = "entry"
  /\ chunk_index = 0
  /\ bytes_to_read = 0
  /\ len_to_send = 0
  /\ err = ESP_OK
  /\ ret = NONE
  /\ read_chunk = NULL
  /\ b64_buf = NULL
  /\ b64_buf_capacity = 0
  /\ heap = [b \in Blocks |-> "unallocated"]
  /\ log = << >>
  /\ flash \in FlashSeeds
  /\ read_data = << >>
  /\ b64_data = << >>
  /\ data_to_send = NULL
  /\ wire = << >>
  /\ progress_info = NullInfo
  /\ app = AppNone
  /\ mqtt_ctx = NoCtx
  /\ published = << >>
  /\ gi = GiIdle


(***************************************************************************)
(* Decisions and helpers of coredump_upload.                               *)
(***************************************************************************)
\* variant: the write slot is not checked
ArgsValid_NoWriteCheck(c) == c.nonnull

\* if (!cbs || !cbs->write) return ESP_ERR_INVALID_ARG;
ArgsValid(c) == c.nonnull /\ c.write

\* variant: the final chunk is read at full chunk size
BytesToRead_AlwaysChunk(inf, i) == inf.chunk_size

\* bytes_to_read of chunk i
BytesToRead(inf, i) ==
  IF i = inf.chunk_count - 1 THEN inf.last_chunk_size ELSE inf.chunk_size

\* variant: the offset of the following chunk
Offset_FromOne(inf, i) == ((i + 1) * inf.chunk_size) % SizeMod

\* variant: every chunk is read from the start of the image
Offset_Zero(inf, i) == 0

\* offset of chunk i
Offset(inf, i) == (i * inf.chunk_size) % SizeMod

\* loop condition chunk_index < info->chunk_count
LoopHead(inf, i) == IF i < inf.chunk_count THEN "read" ELSE "end"

\* variant: the status of end is dropped
MergeEndErr_Dropped(e, end_err) == e

\* variant: a failing end always becomes the error of the call
MergeEndErr_EndWins(e, end_err) == IF end_err # ESP_OK THEN end_err ELSE e

\* if (err == ESP_OK && end_err != ESP_OK) err = end_err;
MergeEndErr(e, end_err) == IF e = ESP_OK /\ end_err # ESP_OK THEN end_err ELSE e

\* variant: the image is erased whatever err is
EraseAllowed_Always(e) == TRUE

\* if (err == ESP_OK) { ... esp_core_dump_image_erase() ... }
EraseAllowed(e) == e = ESP_OK

\* variant: the status of the erase is dropped
MergeEraseErr_Dropped(e, erase_err) == e

\* if (erase_err != ESP_OK) err = erase_err;
MergeEraseErr(e, erase_err) == IF erase_err # ESP_OK THEN erase_err ELSE e

\* free(p) on heap h
free(h, p) ==
  [h EXCEPT ![p] = IF @ = "live" THEN "freed" ELSE "double_free"]

\* variant: b64_buf is not released
FreeBoth_ReadOnly(h, r, b) == IF r # NULL THEN free(h, r) ELSE h

\* if (read_chunk) free(read_chunk); if (b64_buf) free(b64_buf);
FreeBoth(h, r, b) ==
  LET h1 == IF r # NULL THEN free(h, r) ELSE h
  IN  IF b # NULL THEN free(h1, b) ELSE h1

\* variant: read_chunk is not released
FreeOnB64Fail_Leak(h, r) == h

\* the release done when the Base64 buffer cannot be allocated
FreeOnB64Fail(h, r) == free(h, r)

\* variant: a refused allocation does not return
AfterAllocFail_GoOn == "start"

\* where a refused allocation leaves the call
AfterAllocFail == "done"

\* variant: a failing start falls through to the end callback
AfterStartFail_ToEnd == "end"

\* variant: a raw chunk is always sent with the full chunk size
LenToSendRaw_ChunkSize(inf, n) == inf.chunk_size

\* size_t len_to_send = bytes_to_read;
LenToSendRaw(inf, n) == n

\* where a failing start callback leaves the call
AfterStartFail == "done"

\* variant: a failed read does not leave the loop
AfterReadFail_GoOn == "encode"

\* a failed esp_flash_read breaks out of the loop
AfterReadFail == "end"

\* variant: progress is told the raw length of the chunk
BytesSent_Raw(len, raw) == raw

\* bytes_sent argument of progress: len_to_send
BytesSent(len, raw) == len

\* variant: no room for the terminator mbedtls_base64_encode appends
B64Capacity_NoNul(chunk_size) == _b64_encoded_size(chunk_size)

\* size_t b64_buf_capacity = _b64_encoded_size(info->chunk_size) + 1
B64Capacity(chunk_size) == (_b64_encoded_size(chunk_size) + 1) % SizeMod

\* variant: a failed encode does not leave the loop
AfterEncodeFail_GoOn == "write"

\* a failed mbedtls_base64_encode breaks out of the loop
AfterEncodeFail == "end"

\* variant: err is left as it is when the encoder fails
EncodeErr_Unchanged(e) == e

\* err = ESP_FAIL when mbedtls_base64_encode fails
EncodeErr(e) == ESP_FAIL

\* variant: end is skipped when there is no start callback
CallsEnd_NeedsStart(c) == c.end /\ c.start

\* if (cbs->end)
CallsEnd(c) == c.end

\* variant: a failing write does not break out of the loop
AfterWriteFail_NoBreak == "progress"

\* where a failing write callback leaves the loop
AfterWriteFail == "end"

(***************************************************************************)
(* coredump_upload, one action per stretch of code ending in an external   *)
(* call.                                                                   *)
(***************************************************************************)
\* argument validation and the choice of the descriptor
Entry ==
  /\ pc = "entry"
  /\ IF ~ArgsValid(cbs)
     THEN /\ ret' = ESP_ERR_INVALID_ARG
          /\ pc' = "done"
     ELSE /\ ret' = ret
          /\ pc' = IF info.nonnull THEN "malloc_read" ELSE "get_info"
  /\ UNCHANGED <<app, mqtt_ctx, published>>
  /\ UNCHANGED <<progress_info, gi, flash, read_data, b64_data, data_to_send, wire>>
  /\ UNCHANGED <<cbs, arg_info, image, info, chunk_index, bytes_to_read,
                 len_to_send, err, read_chunk, b64_buf, b64_buf_capacity,
                 heap, log>>

\* info == NULL: coredump_uploader_get_info(&local_info, 0, false)
GetInfoDefault ==
  /\ pc = "get_info"
  /\ \E loc_err \in Status :
       LET r == coredump_uploader_get_info(TRUE, loc_err, image.addr, image.size, 0, FALSE)
       IN  /\ log' = Append(log, Ev("locate", -1, image.addr, image.size, image.size, loc_err))
           /\ IF r.err # ESP_OK
              THEN /\ ret' = r.err
                   /\ pc' = "done"
                   /\ info' = info
              ELSE /\ ret' = ret
                   /\ pc' = "malloc_read"
                   /\ info' = r.out
  /\ UNCHANGED <<app, mqtt_ctx, published>>
  /\ UNCHANGED <<progress_info, gi, flash, read_data, b64_data, data_to_send, wire>>
  /\ UNCHANGED <<cbs, arg_info, image, chunk_index, bytes_to_read, len_to_send,
                 err, read_chunk, b64_buf, b64_buf_capacity, heap>>

\* read_chunk = malloc(info->chunk_size)
MallocRead ==
  /\ pc = "malloc_read"
  /\ \E p \in {NULL, "R"} :
       /\ read_chunk' = p
       /\ IF p = NULL
          THEN /\ ret' = ESP_ERR_NO_MEM
               /\ pc' = AfterAllocFail
               /\ heap' = heap
               /\ read_data' = read_data
          ELSE /\ ret' = ret
               /\ pc' = IF info.use_base64 THEN "malloc_b64" ELSE "start"
               /\ heap' = [heap EXCEPT ![p] = "live"]
               /\ read_data' = FreshBlock(info.chunk_size)
  /\ UNCHANGED <<app, mqtt_ctx, published>>
  /\ UNCHANGED <<progress_info, gi, flash, b64_data, data_to_send, wire>>
  /\ UNCHANGED <<cbs, arg_info, image, info, chunk_index, bytes_to_read,
                 len_to_send, err, b64_buf, b64_buf_capacity, log>>

\* b64_buf = malloc(_b64_encoded_size(info->chunk_size) + 1)
MallocB64 ==
  /\ pc = "malloc_b64"
  /\ b64_buf_capacity' = B64Capacity(info.chunk_size)
  /\ \E p \in {NULL, "B"} :
       /\ b64_buf' = p
       /\ IF p = NULL
          THEN /\ heap' = FreeOnB64Fail(heap, read_chunk)
               /\ ret' = ESP_ERR_NO_MEM
               /\ pc' = AfterAllocFail
               /\ b64_data' = b64_data
          ELSE /\ heap' = [heap EXCEPT ![p] = "live"]
               /\ ret' = ret
               /\ pc' = "start"
               /\ b64_data' = FreshBlock(B64Capacity(info.chunk_size))
  /\ UNCHANGED <<app, mqtt_ctx, published>>
  /\ UNCHANGED <<progress_info, gi, flash, read_data, data_to_send, wire>>
  /\ UNCHANGED <<cbs, arg_info, image, info, chunk_index, bytes_to_read,
                 len_to_send, err, read_chunk, log>>

\* the start callback, if any
Start ==
  /\ pc = "start"
  /\ IF cbs.start
     THEN \E r \in CbResults("start"), ok \in PublishOutcomes :
            /\ log' = Append(log, Ev("start", -1, 0, 0, 0, r))
            /\ published' = (IF InApp
                             THEN Append(published,
                                         Message(BaseTopic, mqtt_ctx.part_quantity, ok))
                             ELSE published)
            /\ err' = r
            /\ IF r # ESP_OK
               THEN /\ pc' = AfterStartFail
                    /\ heap' = FreeBoth(heap, read_chunk, b64_buf)
                    /\ ret' = r
               ELSE /\ pc' = LoopHead(info, 0)
                    /\ heap' = heap
                    /\ ret' = ret
     ELSE /\ pc' = LoopHead(info, 0)
          /\ UNCHANGED <<log, err, heap, ret, published>>
  /\ UNCHANGED <<app, mqtt_ctx>>
  /\ UNCHANGED <<progress_info, gi, flash, read_data, b64_data, data_to_send, wire>>
  /\ UNCHANGED <<cbs, arg_info, image, info, chunk_index, bytes_to_read,
                 len_to_send, read_chunk, b64_buf, b64_buf_capacity>>

\* esp_flash_read of the current chunk.  Reading more than chunk_size bytes
\* overruns read_chunk: the call either goes on or the firmware crashes.
FlashRead ==
  /\ pc = "read"
  /\ LET n == BytesToRead(info, chunk_index)
         a == (info.flash_addr + Offset(info, chunk_index)) % SizeMod
     IN  /\ bytes_to_read' = n
         /\ \E r \in Status :
              /\ log' = Append(log, Ev("read", chunk_index, a, n, n, r))
              /\ err' = r
              /\ IF r # ESP_OK
                 THEN /\ pc' = AfterReadFail
                      /\ read_data' = read_data
                 ELSE /\ pc' \in (IF n > info.chunk_size THEN {"encode", "crashed"}
                                  ELSE {"encode"})
                      /\ read_data' = Store(read_data, FlashBytes(flash, a, n))
  /\ UNCHANGED <<app, mqtt_ctx, published>>
  /\ UNCHANGED <<progress_info, gi, flash, b64_data, data_to_send, wire>>
  /\ UNCHANGED <<cbs, arg_info, image, info, chunk_index, len_to_send, ret,
                 read_chunk, b64_buf, b64_buf_capacity, heap>>

\* choice of data_to_send / len_to_send, with mbedtls_base64_encode if enabled
Base64Encode ==
  /\ pc = "encode"
  /\ IF info.use_base64
     THEN LET r == mbedtls_base64_encode(b64_buf_capacity, bytes_to_read)
              a == (info.flash_addr + Offset(info, chunk_index)) % SizeMod
          IN  /\ log' = Append(log, Ev("encode", chunk_index, a, bytes_to_read, r.olen,
                                       IF r.ret = 0 THEN ESP_OK ELSE ESP_FAIL))
              /\ IF r.ret # 0
                 THEN /\ err' = EncodeErr(err)
                      /\ pc' = AfterEncodeFail
                      /\ len_to_send' = LenToSendRaw(info, bytes_to_read)
                      /\ data_to_send' = "read_chunk"
                      /\ b64_data' = b64_data
                 ELSE /\ err' = err
                      /\ pc' = "write"
                      /\ len_to_send' = r.olen
                      /\ data_to_send' = "b64_buf"
                      /\ b64_data' = Store(b64_data,
                                           Base64Chars(SubSeq(read_data, 1, bytes_to_read))
                                           \o <<NulChar>>)
     ELSE /\ len_to_send' = LenToSendRaw(info, bytes_to_read)
          /\ data_to_send' = "read_chunk"
          /\ pc' = "write"
          /\ UNCHANGED <<log, err, b64_data>>
  /\ UNCHANGED <<app, mqtt_ctx, published>>
  /\ UNCHANGED <<progress_info, gi, flash, read_data, wire>>
  /\ UNCHANGED <<cbs, arg_info, image, info, chunk_index, bytes_to_read, ret,
                 read_chunk, b64_buf, b64_buf_capacity, heap>>

\* the write callback
Write ==
  /\ pc = "write"
  /\ \E r \in CbResults("write"), ok \in PublishOutcomes :
       /\ InApp => r = mqtt_coredump_write(ok)
       /\ mqtt_ctx' = (IF InApp
                       THEN [mqtt_ctx EXCEPT !.part_count = NextPartCount(@, ok)]
                       ELSE mqtt_ctx)
       /\ published' = (IF InApp
                        THEN Append(published,
                                    Message(PartTopic(NextPartCount(mqtt_ctx.part_count, ok)),
                                            len_to_send, ok))
                        ELSE published)
       /\ log' = Append(log, Ev("write", chunk_index,
                                (info.flash_addr + Offset(info, chunk_index)) % SizeMod,
                                bytes_to_read, len_to_send, r))
       /\ err' = r
       /\ pc' = IF r # ESP_OK THEN AfterWriteFail ELSE "progress"
  /\ wire' = Append(wire, SubSeq(IF data_to_send = "b64_buf" THEN b64_data ELSE read_data,
                                 1, len_to_send))
  /\ UNCHANGED app
  /\ UNCHANGED <<progress_info, gi, flash, read_data, b64_data, data_to_send>>
  /\ UNCHANGED <<cbs, arg_info, image, info, chunk_index, bytes_to_read,
                 len_to_send, ret, read_chunk, b64_buf, b64_buf_capacity, heap>>

\* the progress callback, if any, and the loop increment
Progress ==
  /\ pc = "progress"
  /\ IF cbs.progress
     THEN \E r \in CbResults("progress") :
            /\ log' = Append(log, Ev("progress", chunk_index,
                                     (info.flash_addr + Offset(info, chunk_index)) % SizeMod,
                                     bytes_to_read,
                                     BytesSent(len_to_send, bytes_to_read), r))
            /\ IF r # ESP_OK
               THEN /\ err' = r
                    /\ pc' = "end"
                    /\ chunk_index' = chunk_index
               ELSE /\ err' = err
                    /\ chunk_index' = (chunk_index + 1) % SizeMod
                    /\ pc' = LoopHead(info, (chunk_index + 1) % SizeMod)
     ELSE /\ chunk_index' = (chunk_index + 1) % SizeMod
          /\ pc' = LoopHead(info, (chunk_index + 1) % SizeMod)
          /\ UNCHANGED <<log, err>>
  /\ progress_info' = (IF cbs.progress THEN info ELSE progress_info)
  /\ UNCHANGED <<app, mqtt_ctx, published>>
  /\ UNCHANGED <<gi, flash, read_data, b64_data, data_to_send, wire>>
  /\ UNCHANGED <<cbs, arg_info, image, info, bytes_to_read, len_to_send, ret,
                 read_chunk, b64_buf, b64_buf_capacity, heap>>

\* the end callback, if any, and the decision to erase
End ==
  /\ pc = "end"
  /\ \E r \in (IF CallsEnd(cbs) THEN CbResults("end") ELSE {ESP_OK}) :
       LET e == IF CallsEnd(cbs) THEN MergeEndErr(err, r) ELSE err
       IN  /\ log' = IF CallsEnd(cbs) THEN Append(log, Ev("end", -1, 0, 0, 0, r)) ELSE log
           /\ err' = e
           /\ IF EraseAllowed(e)
              THEN /\ pc' = "erase"
                   /\ UNCHANGED <<heap, ret>>
              ELSE /\ heap' = FreeBoth(heap, read_chunk, b64_buf)
                   /\ ret' = e
                   /\ pc' = "done"
  /\ UNCHANGED <<app, mqtt_ctx, published>>
  /\ UNCHANGED <<progress_info, gi, flash, read_data, b64_data, data_to_send, wire>>
  /\ UNCHANGED <<cbs, arg_info, image, info, chunk_index, bytes_to_read,
                 len_to_send, read_chunk, b64_buf, b64_buf_capacity>>

\* esp_core_dump_image_erase, the release of the buffers and the return
Erase ==
  /\ pc = "erase"
  /\ \E r \in Status :
       /\ log' = Append(log, Ev("erase", -1, image.addr, image.size, 0, r))
       /\ image' = IF r = ESP_OK THEN [image EXCEPT !.size = 0] ELSE image
       /\ err' = MergeEraseErr(err, r)
       /\ ret' = MergeEraseErr(err, r)
  /\ heap' = FreeBoth(heap, read_chunk, b64_buf)
  /\ pc' = "done"
  /\ UNCHANGED <<app, mqtt_ctx, published>>
  /\ UNCHANGED <<progress_info, gi, flash, read_data, b64_data, data_to_send, wire>>
  /\ UNCHANGED <<cbs, arg_info, info, chunk_index, bytes_to_read, len_to_send,
                 read_chunk, b64_buf, b64_buf_capacity>>

Next ==
  \/ Entry
  \/ GetInfoDefault
  \/ MallocRead
  \/ MallocB64
  \/ Start
  \/ FlashRead
  \/ Base64Encode
  \/ Write
  \/ Progress
  \/ End
  \/ Erase

Spec == Init /\ [][Next]_vars

(***************************************************************************)
(* coredump_uploader_get_info called on its own: the inputs are drawn in   *)
(* InitInfo, the call is one action.                                       *)
(***************************************************************************)
InitInfo ==
  /\ cbs = [nonnull |-> FALSE, start |-> FALSE, write |-> FALSE,
            progress |-> FALSE, end |-> FALSE]
  /\ \E a \in ImageAddrs, sz \in InfoSizes : image = [addr |-> a, size |-> sz]
  /\ gi \in GiCalls
  /\ arg_info = NullInfo
  /\ info = NullInfo
  /\ pc = "idle"
  /\ chunk_index = 0
  /\ bytes_to_read = 0
  /\ len_to_send = 0
  /\ err = ESP_OK
  /\ ret = NONE
  /\ read_chunk = NULL
  /\ b64_buf = NULL
  /\ b64_buf_capacity = 0
  /\ heap = [b \in Blocks |-> "unallocated"]
  /\ log = << >>
  /\ flash \in FlashSeeds
  /\ read_data = << >>
  /\ b64_data = << >>
  /\ data_to_send = NULL
  /\ wire = << >>
  /\ progress_info = NullInfo
  /\ app = AppNone
  /\ mqtt_ctx = NoCtx
  /\ published = << >>

\* one call coredump_uploader_get_info(out, desired_chunk_size, use_base64)
GetInfoCall ==
  /\ gi.pc = "call"
  /\ \E loc_err \in Status :
       LET r == coredump_uploader_get_info(gi.out_nonnull, loc_err, image.addr,
                                           image.size, gi.desired_chunk_size,
                                           gi.use_base64)
       IN  gi' = [gi EXCEPT !.pc = "returned", !.loc_err = loc_err,
                            !.err = r.err, !.out = r.out]
  /\ UNCHANGED <<cbs, arg_info, image, info, pc, chunk_index, bytes_to_read,
                 len_to_send, err, ret, read_chunk, b64_buf, b64_buf_capacity,
                 heap, log, flash, read_data, b64_data, data_to_send, wire,
                 progress_info, app, mqtt_ctx, published>>

NextInfo == GetInfoCall

SpecInfo == InitInfo /\ [][NextInfo]_vars


(***************************************************************************)
(* Observations on the log.                                                *)
(***************************************************************************)
Idx(op) == {k \in 1..Len(log) : log[k].op = op}
N(op) == Cardinality(Idx(op))
\* op was called for chunk i (-1: no chunk) and returned OK
ReturnedOK(op, i) ==
  \E k \in Idx(op) : log[k].i = i /\ log[k].res = ESP_OK
\* the calls of op that returned an error
Failed(op) == {k \in Idx(op) : log[k].res # ESP_OK}
EraseInvoked == N("erase") > 0
Returned == pc = "done"
AllCbsInstalled == cbs.nonnull /\ cbs.start /\ cbs.write /\ cbs.progress /\ cbs.end

RECURSIVE SumRaw(_)
\* sum of the raw lengths of the log entries with index in S
SumRaw(S) ==
  IF S = {} THEN 0
  ELSE LET k == CHOOSE x \in S : TRUE IN log[k].raw + SumRaw(S \ {k})

(***************************************************************************)
(* C1: the erase primitive is invoked iff start (when present) returned    *)
(* OK, every chunk's read, encode (when enabled), write and progress (when *)
(* present) returned OK, and end (when present) returned OK.  The          *)
(* descriptors are those with at least one chunk (the data model's         *)
(* chunk_count >= 1); "only if" is checked for every descriptor.           *)
(***************************************************************************)
AllStepsOK ==
  /\ cbs.start => ReturnedOK("start", -1)
  /\ \A i \in 0..(info.chunk_count - 1) :
       /\ ReturnedOK("read", i)
       /\ info.use_base64 => ReturnedOK("encode", i)
       /\ ReturnedOK("write", i)
       /\ cbs.progress => ReturnedOK("progress", i)
  /\ cbs.end => ReturnedOK("end", -1)

C1_EraseIffAllStepsOK ==
  /\ EraseInvoked => AllStepsOK
  /\ (Returned /\ info.nonnull /\ info.chunk_count >= 1 /\ AllStepsOK) => EraseInvoked

C1_Witness ==
  /\ Returned /\ EraseInvoked /\ AllCbsInstalled
  /\ info.use_base64 /\ info.chunk_count >= 2

(***************************************************************************)
(* C2: for every descriptor the call can be given, whenever erase is       *)
(* invoked some write has returned OK and the raw lengths handed to the    *)
(* successful writes sum to the size of the image on flash.                *)
(***************************************************************************)
C2_EraseOnlyAfterFullTransfer ==
  EraseInvoked =>
    /\ \E k \in Idx("write") : log[k].res = ESP_OK
    /\ \A e \in Idx("erase") :
         SumRaw({k \in Idx("write") : log[k].res = ESP_OK}) = log[e].raw


(***************************************************************************)
(* The callbacks observed by the host.                                     *)
(***************************************************************************)
IsCb(e) == e.op \in {"start", "write", "progress", "end"}
CbEvents == SelectSeq(log, IsCb)
\* the observed sequence, as <<callback, chunk index>> pairs
CbSeq == [k \in 1..Len(CbEvents) |-> <<CbEvents[k].op, CbEvents[k].i>>]

\* start, (write i, progress i) for i < n
BodySeq(n) ==
  [k \in 1..(2 * n + 1) |->
     IF k = 1 THEN <<"start", -1>>
     ELSE IF k % 2 = 0 THEN <<"write", (k - 2) \div 2>>
     ELSE <<"progress", (k - 3) \div 2>>]
\* start, (write i, progress i) for i < n, end
FullSeq(n) == BodySeq(n) \o << <<"end", -1>> >>

IsStrictPrefix(s, t) ==
  /\ Len(s) < Len(t)
  /\ \A k \in 1..Len(s) : s[k] = t[k]

\* the reads, encodes and callbacks that returned an error
FailIdx ==
  {k \in 1..Len(log) :
     /\ log[k].op \in {"read", "encode", "start", "write", "progress", "end"}
     /\ log[k].res # ESP_OK}
FirstFail == log[CHOOSE k \in FailIdx : \A j \in FailIdx : k <= j]

\* how much of BodySeq has been observed when step f fails
CutLen(f) ==
  CASE f.op = "start" -> 1
    [] f.op \in {"read", "encode"} -> 1 + 2 * f.i
    [] f.op = "write" -> 2 + 2 * f.i
    [] f.op = "progress" -> 3 + 2 * f.i
    [] f.op = "end" -> 2 * info.chunk_count + 1

(***************************************************************************)
(* C3 as stated: with all callbacks installed the observed sequence is     *)
(* start, (write, progress) x chunk_count, end, and a strict prefix of it  *)
(* when some read, encode or callback failed (stated for the uploads that  *)
(* reach start with a descriptor of at least one chunk).                   *)
(***************************************************************************)
C3_StrictPrefixOnFailure ==
  (Returned /\ AllCbsInstalled /\ N("start") > 0 /\ info.chunk_count >= 1) =>
    IF FailIdx = {} THEN CbSeq = FullSeq(info.chunk_count)
    ELSE IsStrictPrefix(CbSeq, FullSeq(info.chunk_count))

(***************************************************************************)
(* C3 amended: with all callbacks installed the observed sequence is       *)
(* start, (write, progress) x chunk_count, end; when some read, encode or  *)
(* callback fails it is the prefix of start, (write, progress) x           *)
(* chunk_count that ends with the failing callback (or just before the     *)
(* chunk whose read or encode failed), followed by end unless it is start  *)
(* that failed.  Nothing is observed when the call fails before start.     *)
(***************************************************************************)
C3_PrefixThenEnd ==
  (Returned /\ AllCbsInstalled) =>
    IF N("start") = 0 THEN CbSeq = << >>
    ELSE IF FailIdx = {} THEN CbSeq = FullSeq(info.chunk_count)
    ELSE CbSeq = SubSeq(BodySeq(info.chunk_count), 1, CutLen(FirstFail))
                 \o (IF FirstFail.op = "start" THEN << >> ELSE << <<"end", -1>> >>)

C3_Witness ==
  /\ Returned /\ AllCbsInstalled /\ info.chunk_count >= 3
  /\ \E k \in Failed("write") : log[k].i = 1
  /\ N("end") = 1

(***************************************************************************)
(* C4: the call returns OK iff erase was invoked and returned OK; erase is *)
(* invoked only after the last chunk's write and after end have returned,  *)
(* and nothing is called after erase.                                      *)
(***************************************************************************)
C4_OkIffErased ==
  /\ Returned => (ret = ESP_OK <=> \E k \in Idx("erase") : log[k].res = ESP_OK)
  /\ \A e \in Idx("erase") :
       /\ e = Len(log)
       /\ info.chunk_count >= 1 =>
            \E k \in 1..(e - 1) : log[k].op = "write" /\ log[k].i = info.chunk_count - 1
                                  /\ log[k].res = ESP_OK
       /\ cbs.end => \E k \in 1..(e - 1) : log[k].op = "end"
       /\ \A k \in 1..(e - 1) : log[k].op = "end" =>
            \A j \in Idx("write") : j < k

C4_Witness ==
  /\ Returned /\ ret = ESP_OK /\ cbs.end /\ cbs.progress
  /\ info.chunk_count >= 2 /\ N("write") = info.chunk_count
  /\ log[Len(log)].op = "erase"

(***************************************************************************)
(* C5: a start callback returning non-OK makes the call return that status *)
(* at once: no read, write, progress, end or erase, both buffers freed.    *)
(***************************************************************************)
C5_StartFailure ==
  \A k \in Failed("start") :
    /\ Returned
    /\ ret = log[k].res
    /\ k = Len(log)
    /\ N("read") = 0 /\ N("write") = 0 /\ N("progress") = 0
    /\ N("end") = 0 /\ N("erase") = 0
    /\ heap["R"] = "freed"
    /\ heap["B"] = (IF info.use_base64 THEN "freed" ELSE "unallocated")

C5_Witness ==
  /\ Failed("start") # {} /\ Returned
  /\ info.use_base64 /\ cbs.end /\ info.chunk_count >= 1

(***************************************************************************)
(* C6: when progress returns non-OK for chunk i there is no further read,  *)
(* write or progress (i+1 writes, i+1 progress calls), end is invoked once *)
(* if present, erase is not invoked and the call returns the status of     *)
(* progress even if end fails too.                                         *)
(***************************************************************************)
C6_ProgressFailure ==
  \A k \in Failed("progress") :
    /\ N("read") = log[k].i + 1
    /\ N("write") = log[k].i + 1
    /\ N("progress") = log[k].i + 1
    /\ \A j \in (k + 1)..Len(log) : log[j].op = "end"
    /\ N("erase") = 0
    /\ N("end") <= 1
    /\ pc \in {"end", "done"}
    /\ Returned => /\ ret = log[k].res
                   /\ N("end") = (IF cbs.end THEN 1 ELSE 0)

C6_Witness ==
  /\ Returned
  /\ \E k \in Failed("progress") :
       /\ log[k].i >= 1
       /\ \E j \in Failed("end") : log[j].res # log[k].res

(***************************************************************************)
(* C7: when write returns non-OK for chunk k there have been k+1 writes    *)
(* and k progress calls (progress installed) in total, none for chunk k,   *)
(* no later chunk is read, end is invoked once if present, erase is not    *)
(* invoked and the call returns the status of write.                       *)
(***************************************************************************)
C7_WriteFailure ==
  \A w \in Failed("write") :
    /\ N("write") = log[w].i + 1
    /\ N("progress") = (IF cbs.progress THEN log[w].i ELSE 0)
    /\ \A j \in Idx("progress") : log[j].i # log[w].i
    /\ N("read") = log[w].i + 1
    /\ \A j \in (w + 1)..Len(log) : log[j].op = "end"
    /\ N("erase") = 0
    /\ N("end") <= 1
    /\ pc \in {"end", "done"}
    /\ Returned => /\ ret = log[w].res
                   /\ N("end") = (IF cbs.end THEN 1 ELSE 0)

C7_Witness ==
  /\ Returned /\ cbs.progress /\ cbs.end
  /\ \E w \in Failed("write") : log[w].i >= 1
  /\ Failed("end") # {}

(***************************************************************************)
(* Scenario S4: total_size = 1000, desired_chunk_size = 300, Base64 on,    *)
(* all callbacks installed, write fails on chunk index 2.                  *)
(***************************************************************************)
S4 ==
  /\ AllCbsInstalled
  /\ image.size = 1000
  /\ arg_info = FillInfo(image.addr, 1000, 300, TRUE)
  /\ \E w \in Failed("write") : log[w].i = 2
  /\ Returned

(***************************************************************************)
(* C8 as stated: in S4 exactly 2 write calls are made, no progress follows *)
(* the failing write, end is called, erase is not invoked and the call     *)
(* returns the write error.                                                *)
(***************************************************************************)
C8_S4TwoWrites ==
  S4 =>
    /\ N("write") = 2
    /\ \A w \in Failed("write") : \A j \in Idx("progress") : j < w
    /\ N("end") = 1
    /\ N("erase") = 0
    /\ \A w \in Failed("write") : ret = log[w].res

(***************************************************************************)
(* C8 amended: in S4 exactly 3 write calls are made (chunks 0, 1 and the   *)
(* failing chunk 2) and 2 progress calls, no progress follows the failing  *)
(* write, end is called, erase is not invoked and the call returns the     *)
(* write error.                                                            *)
(***************************************************************************)
C8_S4ThreeWrites ==
  S4 =>
    /\ N("write") = 3
    /\ N("progress") = 2
    /\ \A w \in Failed("write") : \A j \in Idx("progress") : j < w
    /\ N("end") = 1
    /\ N("erase") = 0
    /\ \A w \in Failed("write") : ret = log[w].res

C8_Witness == S4 /\ info.chunk_count = 4 /\ N("end") = 1

(***************************************************************************)
(* C9: with cbs NULL or its write slot NULL the call returns the           *)
(* invalid-argument error without side effects: no locate, no allocation,  *)
(* no callback, no flash read, no erase.                                   *)
(***************************************************************************)
C9_InvalidArgument ==
  (~cbs.nonnull \/ ~cbs.write) =>
    /\ pc \in {"entry", "done"}
    /\ Returned => ret = ESP_ERR_INVALID_ARG
    /\ log = << >>
    /\ \A b \in Blocks : heap[b] = "unallocated"
    /\ read_chunk = NULL /\ b64_buf = NULL

C9_Witness ==
  /\ Returned /\ cbs.nonnull /\ ~cbs.write /\ cbs.start /\ cbs.end
  /\ ~arg_info.nonnull /\ image.size > 0

(***************************************************************************)
(* C10: when the call returns, on any path, no buffer it allocated is      *)
(* still allocated, and no buffer is ever freed twice.                     *)
(***************************************************************************)
C10_NoLeakNoDoubleFree ==
  /\ \A b \in Blocks : heap[b] # "double_free"
  /\ Returned => \A b \in Blocks : heap[b] \in {"unallocated", "freed"}

C10_Witness ==
  /\ Returned /\ ret = ESP_ERR_NO_MEM
  /\ heap["R"] = "freed" /\ heap["B"] = "unallocated"


(***************************************************************************)
(* C11: when the allocation of the read buffer, or of the encode buffer    *)
(* with use_base64, is refused, the call returns ESP_ERR_NO_MEM having     *)
(* invoked no callback, read no flash and erased nothing, and having       *)
(* released the read buffer if it had been acquired.                       *)
(***************************************************************************)
PastMallocRead == pc \notin {"entry", "get_info", "malloc_read"}
ReadAllocRefused ==
  ArgsValid(cbs) /\ info.nonnull /\ PastMallocRead /\ read_chunk = NULL
B64AllocRefused ==
  /\ info.use_base64 /\ PastMallocRead /\ pc # "malloc_b64"
  /\ read_chunk # NULL /\ b64_buf = NULL

C11_AllocFailure ==
  (ReadAllocRefused \/ B64AllocRefused) =>
    /\ Returned
    /\ ret = ESP_ERR_NO_MEM
    /\ \A k \in 1..Len(log) : log[k].op = "locate"
    /\ ReadAllocRefused => \A b \in Blocks : heap[b] = "unallocated"
    /\ B64AllocRefused => heap["R"] = "freed" /\ heap["B"] = "unallocated"

C11_Witness ==
  /\ B64AllocRefused /\ Returned /\ AllCbsInstalled /\ info.chunk_count >= 1


(***************************************************************************)
(* coredump_uploader_get_info called with a desired_chunk_size close to    *)
(* SIZE_MAX, where size + chunk - 1 wraps.                                 *)
(***************************************************************************)
WideDesired == {SizeMod - 1 - k : k \in 0..MaxBelowMax}
GiCallsWide ==
  {[GiIdle EXCEPT !.pc = "call", !.out_nonnull = o, !.desired_chunk_size = d,
                  !.use_base64 = b, !.out = IF o THEN DirtyInfo ELSE NullInfo] :
     o \in BOOLEAN, d \in WideDesired, b \in BOOLEAN}

InitInfoWide ==
  /\ cbs = [nonnull |-> FALSE, start |-> FALSE, write |-> FALSE,
            progress |-> FALSE, end |-> FALSE]
  /\ \E a \in ImageAddrs, sz \in InfoSizes : image = [addr |-> a, size |-> sz]
  /\ gi \in GiCallsWide
  /\ arg_info = NullInfo
  /\ info = NullInfo
  /\ pc = "idle"
  /\ chunk_index = 0
  /\ bytes_to_read = 0
  /\ len_to_send = 0
  /\ err = ESP_OK
  /\ ret = NONE
  /\ read_chunk = NULL
  /\ b64_buf = NULL
  /\ b64_buf_capacity = 0
  /\ heap = [b \in Blocks |-> "unallocated"]
  /\ log = << >>
  /\ flash \in FlashSeeds
  /\ read_data = << >>
  /\ b64_data = << >>
  /\ data_to_send = NULL
  /\ wire = << >>
  /\ progress_info = NullInfo
  /\ app = AppNone
  /\ mqtt_ctx = NoCtx
  /\ published = << >>

NextInfoWide == GetInfoCall

SpecInfoWide == InitInfoWide /\ [][NextInfoWide]_vars

(***************************************************************************)
(* coredump_uploader_need_upload called on its own, up to MaxNeedCalls     *)
(* times in one boot.                                                      *)
(***************************************************************************)
InitNeed ==
  /\ cbs = [nonnull |-> FALSE, start |-> FALSE, write |-> FALSE,
            progress |-> FALSE, end |-> FALSE]
  /\ \E a \in ImageAddrs, sz \in InfoSizes : image = [addr |-> a, size |-> sz]
  /\ \E rr \in ResetReasons :
       app = [AppNone EXCEPT !.pc = "probe", !.boot = 1, !.reset_reason = rr,
                             !.boot_image = image.size]
  /\ gi = GiIdle
  /\ arg_info = NullInfo
  /\ info = NullInfo
  /\ pc = "idle"
  /\ chunk_index = 0
  /\ bytes_to_read = 0
  /\ len_to_send = 0
  /\ err = ESP_OK
  /\ ret = NONE
  /\ read_chunk = NULL
  /\ b64_buf = NULL
  /\ b64_buf_capacity = 0
  /\ heap = [b \in Blocks |-> "unallocated"]
  /\ log = << >>
  /\ flash \in FlashSeeds
  /\ read_data = << >>
  /\ b64_data = << >>
  /\ data_to_send = NULL
  /\ wire = << >>
  /\ progress_info = NullInfo
  /\ mqtt_ctx = NoCtx
  /\ published = << >>

\* one call coredump_uploader_need_upload()
NeedUploadCall ==
  /\ app.pc = "probe"
  /\ Len(app.answers) < MaxNeedCalls
  /\ app' = [app EXCEPT !.answers =
                          Append(@, coredump_uploader_need_upload(app.reset_reason))]
  /\ UNCHANGED <<cbs, arg_info, image, info, pc, chunk_index, bytes_to_read,
                 len_to_send, err, ret, read_chunk, b64_buf, b64_buf_capacity,
                 heap, log, flash, read_data, b64_data, data_to_send, wire, gi,
                 progress_info, mqtt_ctx, published>>

NextNeed == NeedUploadCall

SpecNeed == InitNeed /\ [][NextNeed]_vars

(***************************************************************************)
(* The application: app_main and check_and_upload_coredump, with the       *)
(* callbacks mqtt_coredump_start / write / end and progress_cb.            *)
(***************************************************************************)
\* the images found at boot, and the two revisions of the application:
\* coredump_uploader_get_info(&info, 1024, true) and (&info, 0, true)
AppImageSizes == {0, 5, 2500}
AppDesired == {1024, 0}
\* the revision with desired_chunk_size 0 is the queue-based one
AppRevisions == {[desired |-> d, queued |-> (d = 0)] : d \in AppDesired}

\* variant: the upload is attempted whatever the reset cause
AfterNeedUpload_Always(need) == "get_info"

\* if (coredump_uploader_need_upload()) { ... } else { ... }
AfterNeedUpload(need) == IF need THEN "get_info" ELSE "normal"

InitApp ==
  /\ cbs = [nonnull |-> FALSE, start |-> FALSE, write |-> FALSE,
            progress |-> FALSE, end |-> FALSE]
  /\ \E a \in ImageAddrs, sz \in AppImageSizes : image = [addr |-> a, size |-> sz]
  /\ \E rr \in ResetReasons, rev \in AppRevisions :
       app = [AppNone EXCEPT !.pc = "boot", !.boot = 1, !.reset_reason = rr,
                             !.desired_chunk_size = rev.desired,
                             !.queued = rev.queued, !.boot_image = image.size]
  /\ gi = GiIdle
  /\ arg_info = NullInfo
  /\ info = NullInfo
  /\ pc = "idle"
  /\ chunk_index = 0
  /\ bytes_to_read = 0
  /\ len_to_send = 0
  /\ err = ESP_OK
  /\ ret = NONE
  /\ read_chunk = NULL
  /\ b64_buf = NULL
  /\ b64_buf_capacity = 0
  /\ heap = [b \in Blocks |-> "unallocated"]
  /\ log = << >>
  /\ flash \in FlashSeeds
  /\ read_data = << >>
  /\ b64_data = << >>
  /\ data_to_send = NULL
  /\ wire = << >>
  /\ progress_info = NullInfo
  /\ mqtt_ctx = NoCtx
  /\ published = << >>

\* app_main up to check_and_upload_coredump: wifi_init_start, then (queue-based
\* revision) xQueueCreate, and mqtt_app_start under ESP_ERROR_CHECK
AppMain ==
  /\ app.pc = "boot"
  /\ \E wifi_ok \in BOOLEAN, start_err \in {ESP_OK, ESP_ERR_NO_MEM, ESP_FAIL},
        q \in (IF app.queued THEN {NULL, "Q"} ELSE {NULL}) :
       LET created == IF wifi_ok THEN q ELSE NULL
           serr == IF app.queued /\ created = NULL THEN ESP_ERR_INVALID_ARG
                   ELSE start_err
       IN  app' = IF wifi_ok /\ serr # ESP_OK
                  THEN [app EXCEPT !.pc = "aborted"]
                  ELSE [app EXCEPT !.pc = (IF app.queued THEN "wait_connected"
                                           ELSE "need"),
                                   !.mqtt_client = wifi_ok,
                                   !.mqtt_queue = created,
                                   !.handler_queue = created]
  /\ UNCHANGED <<cbs, arg_info, image, info, pc, chunk_index, bytes_to_read,
                 len_to_send, err, ret, read_chunk, b64_buf, b64_buf_capacity,
                 heap, log, flash, read_data, b64_data, data_to_send, wire, gi,
                 progress_info, mqtt_ctx, published>>

\* app_main: xQueueReceive(mqtt_queue, &msg, portMAX_DELAY), before
\* check_and_upload_coredump and in the command loop; a NULL handle stops the
\* firmware
AppQueueReceive ==
  /\ app.queued
  /\ app.pc \in {"wait_connected", "normal"}
  /\ IF app.mqtt_queue = NULL
     THEN app' = [app EXCEPT !.pc = "aborted",
                             !.queue_ops = @ \cup {<<"receive", app.mqtt_queue>>}]
     ELSE /\ app.queue_len > 0
          /\ app' = [app EXCEPT !.pc = (IF app.pc = "wait_connected" THEN "need"
                                        ELSE "normal"),
                                !.queue_len = @ - 1,
                                !.queue_ops = @ \cup {<<"receive", app.mqtt_queue>>}]
  /\ UNCHANGED <<cbs, arg_info, image, info, pc, chunk_index, bytes_to_read,
                 len_to_send, err, ret, read_chunk, b64_buf, b64_buf_capacity,
                 heap, log, flash, read_data, b64_data, data_to_send, wire, gi,
                 progress_info, mqtt_ctx, published>>

\* mqtt_event_handler in the MQTT task: MQTT_EVENT_CONNECTED sends to the
\* queue, MQTT_EVENT_DATA sends if (mqtt_queue)
MqttEvent ==
  /\ app.queued
  /\ app.mqtt_client
  /\ app.pc \in {"wait_connected", "need", "get_info", "uploading", "normal"}
  /\ app.queue_len < MaxQueued
  /\ \E ev \in {"MQTT_EVENT_CONNECTED", "MQTT_EVENT_DATA"} :
       /\ ev = "MQTT_EVENT_DATA" => app.handler_queue # NULL
       /\ app' = [app EXCEPT !.queue_len = (IF app.handler_queue # NULL THEN @ + 1
                                            ELSE @),
                             !.queue_ops = @ \cup {<<"send", app.handler_queue>>}]
  /\ UNCHANGED <<cbs, arg_info, image, info, pc, chunk_index, bytes_to_read,
                 len_to_send, err, ret, read_chunk, b64_buf, b64_buf_capacity,
                 heap, log, flash, read_data, b64_data, data_to_send, wire, gi,
                 progress_info, mqtt_ctx, published>>

\* check_and_upload_coredump: if (coredump_uploader_need_upload())
AppNeedUpload ==
  /\ app.pc = "need"
  /\ LET need == coredump_uploader_need_upload(app.reset_reason)
     IN  app' = [app EXCEPT !.need = need, !.pc = AfterNeedUpload(need)]
  /\ UNCHANGED <<cbs, arg_info, image, info, pc, chunk_index, bytes_to_read,
                 len_to_send, err, ret, read_chunk, b64_buf, b64_buf_capacity,
                 heap, log, flash, read_data, b64_data, data_to_send, wire, gi,
                 progress_info, mqtt_ctx, published>>

\* check_and_upload_coredump: mqtt_ctx, coredump_uploader_get_info, the
\* callbacks structure and the call coredump_upload(&uploader_cbs, &info)
AppGetInfo ==
  /\ app.pc = "get_info"
  /\ \E loc_err \in Status :
       LET r == coredump_uploader_get_info(TRUE, loc_err, image.addr, image.size,
                                           app.desired_chunk_size, TRUE)
       IN  IF r.err # ESP_OK
           THEN /\ app' = [app EXCEPT !.pc = "normal", !.get_info_err = r.err]
                /\ mqtt_ctx' = NoCtx
                /\ UNCHANGED <<cbs, arg_info, info, pc>>
           ELSE /\ app' = [app EXCEPT !.pc = "uploading", !.get_info_err = r.err,
                                      !.uploads = @ + 1]
                /\ mqtt_ctx' = [NoCtx EXCEPT !.part_quantity = r.out.chunk_count]
                /\ cbs' = [nonnull |-> TRUE, start |-> TRUE, write |-> TRUE,
                           progress |-> TRUE, end |-> TRUE]
                /\ arg_info' = r.out
                /\ info' = r.out
                /\ pc' = "entry"
  /\ UNCHANGED <<image, chunk_index, bytes_to_read, len_to_send, err, ret,
                 read_chunk, b64_buf, b64_buf_capacity, heap, log, flash,
                 read_data, b64_data, data_to_send, wire, gi, progress_info,
                 published>>

\* coredump_upload has returned to check_and_upload_coredump
AppUploadReturn ==
  /\ app.pc = "uploading"
  /\ pc = "done"
  /\ app' = [app EXCEPT !.pc = "normal", !.upload_ret = ret]
  /\ UNCHANGED <<cbs, arg_info, image, info, pc, chunk_index, bytes_to_read,
                 len_to_send, err, ret, read_chunk, b64_buf, b64_buf_capacity,
                 heap, log, flash, read_data, b64_data, data_to_send, wire, gi,
                 progress_info, mqtt_ctx, published>>

\* the device resets (the fault injected at the end of app_main, or any other
\* cause); a crash may leave a new image
Reboot ==
  /\ app.pc \in {"normal", "aborted"}
  /\ app.boot < MaxBoots
  /\ \E rr \in ResetReasons :
       /\ \E sz \in (IF coredump_uploader_need_upload(rr) THEN {image.size, 5}
                     ELSE {image.size}) :
            /\ image' = [image EXCEPT !.size = sz]
            /\ app' = [AppNone EXCEPT !.pc = "boot", !.boot = app.boot + 1,
                                      !.reset_reason = rr,
                                      !.desired_chunk_size = app.desired_chunk_size,
                                      !.queued = app.queued,
                                      !.boot_image = sz]
  /\ cbs' = [nonnull |-> FALSE, start |-> FALSE, write |-> FALSE,
             progress |-> FALSE, end |-> FALSE]
  /\ arg_info' = NullInfo
  /\ info' = NullInfo
  /\ pc' = "idle"
  /\ chunk_index' = 0
  /\ bytes_to_read' = 0
  /\ len_to_send' = 0
  /\ err' = ESP_OK
  /\ ret' = NONE
  /\ read_chunk' = NULL
  /\ b64_buf' = NULL
  /\ b64_buf_capacity' = 0
  /\ heap' = [b \in Blocks |-> "unallocated"]
  /\ log' = << >>
  /\ read_data' = << >>
  /\ b64_data' = << >>
  /\ data_to_send' = NULL
  /\ wire' = << >>
  /\ progress_info' = NullInfo
  /\ mqtt_ctx' = NoCtx
  /\ published' = << >>
  /\ UNCHANGED <<flash, gi>>

NextApp ==
  \/ AppMain
  \/ AppQueueReceive
  \/ MqttEvent
  \/ AppNeedUpload
  \/ AppGetInfo
  \/ Entry
  \/ MallocRead
  \/ MallocB64
  \/ Start
  \/ FlashRead
  \/ Base64Encode
  \/ Write
  \/ Progress
  \/ End
  \/ Erase
  \/ AppUploadReturn
  \/ Reboot

SpecApp == InitApp /\ [][NextApp]_vars

(***************************************************************************)
(* Calls of coredump_uploader_get_info that returned OK.                   *)
(***************************************************************************)
GiReturned == gi.pc = "returned"
GiOk == GiReturned /\ gi.err = ESP_OK

\* the least k with 3k >= n
Ceil3(n) == CHOOSE k \in 0..n : 3 * k >= n /\ 3 * (k - 1) < n

ExpectedChunk(d, b) ==
  IF d = 0 THEN 768
  ELSE IF ~b \/ d % 3 = 0 THEN d
  ELSE IF d < 3 THEN 3
  ELSE CHOOSE m \in 1..d : m % 3 = 0 /\ m + 3 > d

C13_EffectiveChunkSize ==
  GiOk =>
    /\ gi.out.chunk_size = ExpectedChunk(gi.desired_chunk_size, gi.use_base64)
    /\ gi.use_base64 => gi.out.chunk_size > 0 /\ gi.out.chunk_size % 3 = 0

C13_Witness ==
  /\ GiOk /\ gi.use_base64 /\ gi.desired_chunk_size > 3
  /\ gi.desired_chunk_size % 3 = 2
  /\ gi.out.chunk_size = gi.desired_chunk_size - 2

C15_GetInfoErrors ==
  GiReturned =>
    /\ ~gi.out_nonnull => gi.err = ESP_ERR_INVALID_ARG
    /\ (gi.out_nonnull /\ gi.loc_err # ESP_OK) => gi.err = gi.loc_err
    /\ (gi.out_nonnull /\ gi.loc_err = ESP_OK /\ image.size = 0)
         => gi.err = ESP_ERR_NOT_FOUND
    /\ gi.err = ESP_OK <=> (gi.out_nonnull /\ gi.loc_err = ESP_OK /\ image.size > 0)

C15_Witness ==
  /\ GiReturned /\ gi.err = ESP_ERR_NOT_FOUND /\ gi.out_nonnull
  /\ gi.desired_chunk_size > 0


(***************************************************************************)
(* The payloads of an upload.                                              *)
(***************************************************************************)
\* info is what coredump_uploader_get_info returns for the image it describes
\* (the adjustment of the chunk size leaves an adjusted chunk size alone)
FromGetInfo ==
  /\ info.nonnull /\ info.total_size > 0 /\ info.chunk_size > 0
  /\ info = FillInfo(info.flash_addr, info.total_size, info.chunk_size, info.use_base64)

\* write has been called for every chunk
AllWritten == info.chunk_count >= 1 /\ N("write") = info.chunk_count

Reads == SelectSeq(log, LAMBDA e : e.op = "read")
Writes == SelectSeq(log, LAMBDA e : e.op = "write")

RECURSIVE SumLen(_)
\* sum of the len arguments of a sequence of write calls
SumLen(w) == IF w = << >> THEN 0 ELSE Head(w).n + SumLen(Tail(w))

RECURSIVE Flatten(_)
\* concatenation of a sequence of payloads
Flatten(ss) == IF ss = << >> THEN << >> ELSE Head(ss) \o Flatten(Tail(ss))

\* the raw bytes of chunk i on flash, n of them
ChunkOnFlash(i, n) == FlashBytes(flash, info.flash_addr + i * info.chunk_size, n)

\* s is well-formed Base64: groups of 4 characters, '=' only as the last one
\* or two characters
Base64Valid(s) ==
  LET n == Len(s)
  IN  /\ n % 4 = 0
      /\ \A k \in 1..n :
           /\ s[k] \in 0..B64Pad
           /\ s[k] = B64Pad => /\ k >= n - 1
                               /\ s[n] = B64Pad

\* the bytes a Base64 decoder produces for the well-formed s
Base64Decode(s) ==
  LET n == Len(s)
      pads == IF n = 0 THEN 0
              ELSE IF s[n - 1] = B64Pad THEN 2
              ELSE IF s[n] = B64Pad THEN 1 ELSE 0
      val(k) == IF s[k] = B64Pad THEN 0 ELSE s[k]
  IN  [m \in 1..(3 * (n \div 4) - pads) |->
         LET g == (m - 1) \div 3
             j == (m - 1) % 3
         IN  CASE j = 0 -> val(4 * g + 1) * 4 + (val(4 * g + 2) \div 16)
               [] j = 1 -> (val(4 * g + 2) % 16) * 16 + (val(4 * g + 3) \div 4)
               [] j = 2 -> (val(4 * g + 3) % 4) * 64 + val(4 * g + 4)]

(***************************************************************************)
(* C16: in a Base64 upload on a descriptor produced by                     *)
(* coredump_uploader_get_info the len of the write for chunk i is          *)
(* b64_chunk_size for a non-final chunk and b64_last_chunk_size for the    *)
(* final one, and once every chunk has been written the lens sum to        *)
(* 4 * ceil(chunk_size / 3) * (chunk_count - 1)                            *)
(* + 4 * ceil(last_chunk_size / 3) = b64_total_size.                       *)
(***************************************************************************)
C16_Base64WriteLengths ==
  (FromGetInfo /\ info.use_base64) =>
    /\ \A k \in 1..Len(Writes) :
         Writes[k].n = (IF Writes[k].i < info.chunk_count - 1
                        THEN info.b64_chunk_size ELSE info.b64_last_chunk_size)
    /\ AllWritten =>
         /\ SumLen(Writes) = info.b64_total_size
         /\ SumLen(Writes) = 4 * Ceil3(info.chunk_size) * (info.chunk_count - 1)
                             + 4 * Ceil3(info.last_chunk_size)

C16_Witness ==
  /\ Returned /\ FromGetInfo /\ info.use_base64 /\ AllWritten
  /\ info.chunk_count >= 3 /\ info.last_chunk_size % 3 # 0
  /\ info.b64_last_chunk_size < info.b64_chunk_size

(***************************************************************************)
(* C17: in a raw upload on a descriptor produced by                        *)
(* coredump_uploader_get_info, once write has been called for every chunk  *)
(* the payloads written, concatenated in call order, are the image         *)
(* flash[flash_addr .. flash_addr + total_size) byte for byte, each        *)
(* payload has the len passed with it, and the lens sum to total_size.     *)
(***************************************************************************)
C17_RawConcatenation ==
  (FromGetInfo /\ ~info.use_base64) =>
    /\ Len(wire) = Len(Writes)
    /\ \A k \in 1..Len(Writes) : Len(wire[k]) = Writes[k].n
    /\ AllWritten =>
         /\ Flatten(wire) = FlashBytes(flash, info.flash_addr, info.total_size)
         /\ SumLen(Writes) = info.total_size

C17_Witness ==
  /\ Returned /\ ret = ESP_OK /\ FromGetInfo /\ ~info.use_base64
  /\ info.chunk_count >= 3 /\ info.last_chunk_size < info.chunk_size
  /\ Len(Flatten(wire)) = info.total_size

(***************************************************************************)
(* C18: in a Base64 upload the payload of the write for chunk i is         *)
(* well-formed Base64 and decodes to the bytes_to_read_i raw bytes stored  *)
(* at flash_addr + i * chunk_size, whatever the other chunks are (stated   *)
(* for the chunks whose read fits the read buffer).                        *)
(***************************************************************************)
C18_PerChunkDecode ==
  info.use_base64 =>
    \A k \in 1..Len(Writes) :
      Writes[k].raw <= info.chunk_size =>
        /\ Base64Valid(wire[k])
        /\ Base64Decode(wire[k]) = ChunkOnFlash(Writes[k].i, Writes[k].raw)

C18_Witness ==
  /\ info.use_base64 /\ FromGetInfo /\ Returned
  /\ \E k \in 1..Len(Writes) :
       /\ Writes[k].i >= 2 /\ Writes[k].raw % 3 = 1
       /\ wire[k][Len(wire[k])] = B64Pad

(***************************************************************************)
(* C19 as stated: with use_base64 and more than one chunk the payloads     *)
(* written, concatenated, are not a valid Base64 encoding of the whole     *)
(* image.                                                                  *)
(***************************************************************************)
C19_ConcatenationNotBase64 ==
  (FromGetInfo /\ info.use_base64 /\ info.chunk_count > 1 /\ AllWritten) =>
    ~ /\ Base64Valid(Flatten(wire))
      /\ Flatten(wire) = Base64Chars(FlashBytes(flash, info.flash_addr, info.total_size))

(***************************************************************************)
(* C19 amended: with use_base64 on a descriptor produced by                *)
(* coredump_uploader_get_info chunk_size is a multiple of 3, only the      *)
(* final chunk carries padding, and the payloads written, concatenated,    *)
(* are the Base64 encoding of the whole image; with a caller-built         *)
(* descriptor whose chunk_size is not a multiple of 3, more than one chunk  *)
(* and a non-empty final chunk the concatenation is not well-formed        *)
(* Base64.                                                                 *)
(***************************************************************************)
C19_ConcatenationIsBase64 ==
  (info.use_base64 /\ AllWritten) =>
    /\ FromGetInfo =>
         /\ \A k \in 1..(Len(wire) - 1) : \A m \in 1..Len(wire[k]) : wire[k][m] # B64Pad
         /\ Base64Valid(Flatten(wire))
         /\ Flatten(wire) = Base64Chars(FlashBytes(flash, info.flash_addr, info.total_size))
    /\ (info.chunk_size % 3 # 0 /\ info.chunk_count > 1 /\ info.last_chunk_size > 0
        /\ \A k \in 1..Len(Writes) : Writes[k].raw <= info.chunk_size)
         => ~Base64Valid(Flatten(wire))

C19_Witness ==
  /\ info.use_base64 /\ AllWritten /\ FromGetInfo /\ Returned /\ ret = ESP_OK
  /\ info.chunk_count >= 3 /\ info.last_chunk_size % 3 # 0
  /\ Len(Flatten(wire)) = info.b64_total_size

(***************************************************************************)
(* C20: the reads and writes of one upload alternate read 0, write 0,      *)
(* read 1, write 1, ... in ascending index order, each index read at most  *)
(* once and written at most once; the read of chunk i starts at            *)
(* flash_addr + i * chunk_size and asks for chunk_size bytes when          *)
(* i < chunk_count - 1 and last_chunk_size bytes when i = chunk_count - 1. *)
(***************************************************************************)
ReadsAndWrites == SelectSeq(log, LAMBDA e : e.op \in {"read", "write"})

C20_AscendingOrder ==
  /\ \A k \in 1..Len(ReadsAndWrites) :
       /\ ReadsAndWrites[k].op = (IF k % 2 = 1 THEN "read" ELSE "write")
       /\ ReadsAndWrites[k].i = (k - 1) \div 2
  /\ \A k \in 1..Len(Reads) :
       /\ Reads[k].i <= info.chunk_count - 1
       /\ Reads[k].off = (info.flash_addr + Reads[k].i * info.chunk_size) % SizeMod
       /\ Reads[k].raw = (IF Reads[k].i < info.chunk_count - 1
                          THEN info.chunk_size ELSE info.last_chunk_size)

C20_Witness ==
  /\ Returned /\ Len(Reads) >= 4 /\ Len(Writes) >= 3
  /\ Reads[4].res # ESP_OK /\ info.last_chunk_size # info.chunk_size


(***************************************************************************)
(* C21: every progress call directly follows the write of the same chunk,  *)
(* which returned OK; its chunk_index is the number of earlier progress    *)
(* calls, its bytes_sent is the len passed to that write (the length of    *)
(* the payload written, encoded when Base64 is on), its descriptor is the  *)
(* one the upload uses, and no progress call comes after end.              *)
(***************************************************************************)
C21_ProgressAfterWrite ==
  /\ \A k \in Idx("progress") :
       /\ k > 1
       /\ log[k - 1].op = "write"
       /\ log[k - 1].res = ESP_OK
       /\ log[k - 1].i = log[k].i
       /\ log[k].i = Cardinality({j \in Idx("progress") : j < k})
       /\ log[k].n = log[k - 1].n
       /\ log[k].n = Len(wire[log[k].i + 1])
       /\ \A e \in Idx("end") : k < e
  /\ N("progress") > 0 =>
       /\ progress_info = info
       /\ arg_info.nonnull => progress_info = arg_info
  /\ (Returned /\ N("end") = 1 /\ FailIdx \subseteq Idx("end")
      /\ cbs.progress /\ info.chunk_count >= 1) =>
       \E k \in Idx("progress") : log[k].i = info.chunk_count - 1

C21_Witness ==
  /\ Returned /\ info.use_base64 /\ cbs.end /\ N("end") = 1
  /\ N("progress") >= 3 /\ N("progress") = info.chunk_count
  /\ \E k \in Idx("progress") : log[k].n # log[k].raw

(***************************************************************************)
(* C22: end is invoked at most once; it is invoked only if it is present   *)
(* and the start stage was passed (both buffers allocated, start absent or *)
(* returned OK), and in every such upload that has returned it has been    *)
(* invoked exactly once, whether streaming succeeded or failed.            *)
(***************************************************************************)
ReachedStart ==
  /\ pc \notin {"entry", "get_info", "malloc_read", "malloc_b64", "start"}
  /\ read_chunk # NULL
  /\ info.use_base64 => b64_buf # NULL
StartRanOK == ReachedStart /\ (cbs.start => ReturnedOK("start", -1))

C22_EndOnceAfterStart ==
  /\ N("end") <= 1
  /\ N("end") = 1 => cbs.end /\ StartRanOK
  /\ (Returned /\ cbs.end /\ StartRanOK) => N("end") = 1

C22_Witness ==
  /\ Returned /\ cbs.start /\ cbs.end /\ N("end") = 1
  /\ Failed("read") # {} /\ N("write") >= 1

(***************************************************************************)
(* C23: when end returns non-OK erase is not invoked and the call returns  *)
(* the earliest read, encode, write or progress error of the session if    *)
(* there is one, else the status of end.                                   *)
(***************************************************************************)
C23_EndFailure ==
  \A e \in Failed("end") :
    /\ N("erase") = 0
    /\ Returned
    /\ IF FailIdx \ {e} = {}
       THEN ret = log[e].res
       ELSE /\ FirstFail.op \in {"read", "encode", "write", "progress"}
            /\ ret = FirstFail.res

C23_Witness ==
  /\ Returned
  /\ \E e \in Failed("end") : \E k \in Failed("read") :
       log[k].res # log[e].res /\ ret = log[k].res /\ log[k].i >= 1

(***************************************************************************)
(* C24: when the erase primitive fails the call returns the erase error,   *)
(* every chunk has been written and end (if present) has been invoked      *)
(* before, erase has been attempted once and the image is still on flash.  *)
(***************************************************************************)
C24_EraseFailure ==
  \A e \in Failed("erase") :
    /\ Returned
    /\ ret = log[e].res /\ ret # ESP_OK
    /\ N("erase") = 1
    /\ e = Len(log)
    /\ \A i \in 0..(info.chunk_count - 1) : ReturnedOK("write", i)
    /\ N("write") = info.chunk_count
    /\ N("end") = (IF cbs.end THEN 1 ELSE 0)
    /\ image.size = log[e].raw
    /\ info.nonnull /\ info.chunk_count >= 1 => image.size > 0

C24_Witness ==
  /\ Returned /\ Failed("erase") # {} /\ cbs.end /\ cbs.progress
  /\ info.chunk_count >= 2 /\ image.size = 1000

(***************************************************************************)
(* C26: called without a descriptor, coredump_upload derives one with      *)
(* desired_chunk_size 0 and use_base64 false: raw chunks of 768 bytes, the *)
(* last one possibly shorter; when the derivation fails the call returns   *)
(* its error with no buffer allocated, no callback invoked and no erase.   *)
(***************************************************************************)
Derivations == Idx("locate")

C26_DefaultDescriptor ==
  (~arg_info.nonnull /\ Derivations # {}) =>
    /\ Derivations = {1}
    /\ IF log[1].res # ESP_OK \/ log[1].raw = 0
       THEN /\ Returned
            /\ ret = (IF log[1].res # ESP_OK THEN log[1].res ELSE ESP_ERR_NOT_FOUND)
            /\ Len(log) = 1
            /\ \A b \in Blocks : heap[b] = "unallocated"
            /\ ~info.nonnull
       ELSE /\ info.nonnull /\ ~info.use_base64
            /\ info.chunk_size = 768
            /\ info.total_size = log[1].raw /\ info.flash_addr = log[1].off
            /\ 768 * (info.chunk_count - 1) + info.last_chunk_size = info.total_size
            /\ 1 <= info.last_chunk_size /\ info.last_chunk_size <= 768
            /\ \A k \in 1..Len(Writes) :
                 Writes[k].n = (IF Writes[k].i < info.chunk_count - 1 THEN 768
                                ELSE info.last_chunk_size)

C26_Witness ==
  /\ ~arg_info.nonnull /\ Returned /\ N("write") = 2
  /\ Writes[1].n = 768 /\ Writes[2].n = 232 /\ EraseInvoked

C26_WitnessFailure ==
  /\ ~arg_info.nonnull /\ Returned /\ Derivations = {1}
  /\ log[1].res = ESP_OK /\ log[1].raw = 0 /\ ret = ESP_ERR_NOT_FOUND

(***************************************************************************)
(* C27: with a descriptor produced by coredump_uploader_get_info every     *)
(* read lies inside the image (i * chunk_size + bytes_to_read_i <=         *)
(* total_size), the reads of distinct chunks do not overlap, and once      *)
(* every chunk has been read the reads cover exactly [0, total_size).      *)
(***************************************************************************)
\* the image offsets read by the k-th read
ReadRange(k) ==
  {(Reads[k].off - info.flash_addr) + d : d \in 0..(Reads[k].raw - 1)}

C27_ReadsInsideImage ==
  FromGetInfo =>
    /\ \A k \in 1..Len(Reads) :
         /\ Reads[k].i * info.chunk_size + Reads[k].raw <= info.total_size
         /\ ReadRange(k) \subseteq 0..(info.total_size - 1)
         /\ \A j \in 1..(k - 1) : ReadRange(j) \cap ReadRange(k) = {}
    /\ Len(Reads) = info.chunk_count =>
         UNION {ReadRange(k) : k \in 1..Len(Reads)} = 0..(info.total_size - 1)
    /\ Len(Reads) <= info.chunk_count

C27_Witness ==
  /\ FromGetInfo /\ Returned /\ ret = ESP_OK
  /\ Len(Reads) = info.chunk_count /\ info.chunk_count >= 3
  /\ info.last_chunk_size < info.chunk_size

(***************************************************************************)
(* C28: when the read of chunk i fails there is no encode, write or        *)
(* progress for chunk i or a later chunk, nothing but end is called        *)
(* afterwards, erase is not invoked, end (if present) is invoked once and  *)
(* the call returns the error of the read even if end fails too.           *)
(***************************************************************************)
C28_ReadFailure ==
  \A r \in Failed("read") :
    /\ \A k \in 1..Len(log) :
         log[k].op \in {"encode", "write", "progress"} => log[k].i < log[r].i
    /\ N("read") = log[r].i + 1
    /\ \A j \in (r + 1)..Len(log) : log[j].op = "end"
    /\ N("erase") = 0
    /\ N("end") <= 1
    /\ pc \in {"end", "done"}
    /\ Returned => /\ ret = log[r].res
                   /\ N("end") = (IF cbs.end THEN 1 ELSE 0)

C28_Witness ==
  /\ Returned /\ info.use_base64
  /\ \E r \in Failed("read") :
       /\ log[r].i >= 2
       /\ \E e \in Failed("end") : log[e].res # log[r].res


(***************************************************************************)
(* C25: coredump_uploader_need_upload answers true exactly for the reset   *)
(* causes panic, interrupt watchdog, task watchdog, generic watchdog and   *)
(* unknown, false for every other cause; repeated calls in one boot give   *)
(* the same answer and leave the image and the reset cause as they were.   *)
(***************************************************************************)
AbnormalResets ==
  {"ESP_RST_PANIC", "ESP_RST_INT_WDT", "ESP_RST_TASK_WDT", "ESP_RST_WDT",
   "ESP_RST_UNKNOWN"}

C25_NeedUpload ==
  app.pc = "probe" =>
    /\ \A k \in 1..Len(app.answers) :
         /\ app.answers[k] = (app.reset_reason \in AbnormalResets)
         /\ app.answers[k] = app.answers[1]
    /\ image.size = app.boot_image
    /\ log = << >>

C25_Witness ==
  /\ app.pc = "probe" /\ Len(app.answers) >= 2
  /\ app.reset_reason = "ESP_RST_UNKNOWN" /\ app.answers[2] = TRUE
  /\ image.size = 0

(***************************************************************************)
(* C29: in the application coredump_upload is invoked at most once per     *)
(* boot, and only after coredump_uploader_need_upload answered true and    *)
(* coredump_uploader_get_info returned OK; when the upload fails it is not *)
(* started again in that boot and the image is still on flash.             *)
(***************************************************************************)
C29_OneUploadPerBoot ==
  app.pc \notin {"none", "probe"} =>
    /\ app.uploads <= 1
    /\ app.uploads = 1 <=> pc # "idle"
    /\ app.uploads = 1 => (app.need = TRUE /\ app.get_info_err = ESP_OK)
    /\ N("start") <= 1
    /\ (app.pc = "normal" /\ app.upload_ret \notin {NONE, ESP_OK}) =>
         /\ image.size = app.boot_image /\ image.size > 0
         /\ pc = "done" /\ ret = app.upload_ret
         /\ N("erase") = 0 \/ Failed("erase") # {}

C29_Witness ==
  /\ app.pc = "normal" /\ app.boot = 2 /\ app.uploads = 1
  /\ app.upload_ret = ESP_FAIL /\ Failed("write") # {}
  /\ image.size = 2500

(***************************************************************************)
(* C30 as stated: the k-th part of a coredump is published on topic        *)
(* <base>/(k-1), the first on <base>/0, so that a complete upload uses the *)
(* indices 0 .. parts-1 of the announced number of parts.                  *)
(***************************************************************************)
Parts == SelectSeq(published, LAMBDA m : m.topic # BaseTopic)

C30_TopicsFromZero ==
  /\ \A k \in 1..Len(Parts) : Parts[k].topic = k - 1
  /\ (app.pc = "normal" /\ app.upload_ret = ESP_OK) =>
       {Parts[k].topic : k \in 1..Len(Parts)} = 0..(mqtt_ctx.part_quantity - 1)

\* what the application does: the k-th part goes to <base>/k
C30_TopicsFromOne ==
  /\ \A k \in 1..Len(Parts) : Parts[k].topic = k
  /\ (app.pc = "normal" /\ app.upload_ret = ESP_OK) =>
       {Parts[k].topic : k \in 1..Len(Parts)} = 1..mqtt_ctx.part_quantity


(***************************************************************************)
(* C31 as stated: with size_t arithmetic modulo 2^SizeBits, for every      *)
(* total_size > 0 and every desired_chunk_size a descriptor returned with  *)
(* OK has chunk_count >= 1, chunk_count = ceil(total_size / chunk_size)    *)
(* and the Base64 sizes of its chunk sizes.                                *)
(***************************************************************************)
C31_ChunkCountNoWrap ==
  GiOk =>
    /\ gi.out.chunk_count >= 1
    /\ (gi.out.chunk_count - 1) * gi.out.chunk_size < gi.out.total_size
    /\ gi.out.total_size <= gi.out.chunk_count * gi.out.chunk_size
    /\ gi.use_base64 =>
         /\ gi.out.b64_chunk_size = 4 * Ceil3(gi.out.chunk_size)
         /\ gi.out.b64_last_chunk_size = 4 * Ceil3(gi.out.last_chunk_size)

(***************************************************************************)
(* C35: a descriptor returned with OK for use_base64 (no overflow) has     *)
(* 3 * b64_chunk_size = 4 * chunk_size, so no non-final chunk is padded,   *)
(* and b64_total_size = 4 * ceil(total_size / 3), the encoded size of the  *)
(* whole image.                                                            *)
(***************************************************************************)
C35_NoInnerPadding ==
  (GiOk /\ gi.use_base64) =>
    /\ 3 * gi.out.b64_chunk_size = 4 * gi.out.chunk_size
    /\ gi.out.b64_total_size = 4 * Ceil3(gi.out.total_size)

C35_Witness ==
  /\ GiOk /\ gi.use_base64 /\ gi.desired_chunk_size % 3 = 1
  /\ gi.out.chunk_count >= 3 /\ gi.out.total_size % 3 = 2
  /\ gi.out.last_chunk_size < gi.out.chunk_size

(***************************************************************************)
(* C37: after a call of coredump_uploader_get_info with a non-NULL output  *)
(* that fails (platform error or size 0) every field of the output is 0,   *)
(* whatever it held before the call.                                       *)
(***************************************************************************)
C37_OutputZeroedOnFailure ==
  (GiReturned /\ gi.out_nonnull /\ gi.err # ESP_OK) =>
    /\ gi.out.flash_addr = 0 /\ gi.out.total_size = 0
    /\ gi.out.chunk_size = 0 /\ gi.out.chunk_count = 0
    /\ gi.out.last_chunk_size = 0 /\ gi.out.use_base64 = FALSE
    /\ gi.out.b64_total_size = 0 /\ gi.out.b64_chunk_size = 0
    /\ gi.out.b64_last_chunk_size = 0

C37_Witness ==
  /\ GiReturned /\ gi.out_nonnull /\ gi.err = ESP_ERR_TIMEOUT
  /\ gi.use_base64 /\ image.size > 0 /\ gi.out.total_size = 0


(***************************************************************************)
(* C32: with a descriptor produced by coredump_uploader_get_info every     *)
(* iteration reads bytes_to_read <= chunk_size bytes, the size of the read *)
(* buffer, and with use_base64 the capacity of the encode buffer is        *)
(* 4 * ceil(chunk_size / 3) + 1 >= 4 * ceil(bytes_to_read / 3) + 1: the    *)
(* buffers are not overrun and the encoder never fails.                    *)
(***************************************************************************)
C32_BuffersLargeEnough ==
  FromGetInfo =>
    /\ pc # "crashed"
    /\ \A k \in 1..Len(Reads) :
         /\ Reads[k].raw <= info.chunk_size
         /\ Reads[k].raw <= Len(read_data)
    /\ Len(Reads) > 0 => Len(read_data) = info.chunk_size
    /\ info.use_base64 =>
         /\ \A k \in Idx("encode") :
              /\ b64_buf_capacity = 4 * Ceil3(info.chunk_size) + 1
              /\ b64_buf_capacity >= 4 * Ceil3(log[k].raw) + 1
              /\ Len(b64_data) = b64_buf_capacity
              /\ log[k].res = ESP_OK
         /\ Failed("encode") = {}

C32_Witness ==
  /\ FromGetInfo /\ info.use_base64 /\ Returned /\ N("encode") = info.chunk_count
  /\ info.chunk_count >= 3 /\ info.last_chunk_size < info.chunk_size
  /\ Len(b64_data) = info.b64_chunk_size + 1

(***************************************************************************)
(* C33: when the Base64 encoder fails on chunk i there is no write or      *)
(* progress for chunk i or a later chunk, nothing but end is called        *)
(* afterwards, erase is not invoked, end (if present) is invoked once and  *)
(* the call returns ESP_FAIL.                                              *)
(***************************************************************************)
C33_EncodeFailure ==
  \A x \in Failed("encode") :
    /\ \A k \in 1..Len(log) :
         log[k].op \in {"write", "progress"} => log[k].i < log[x].i
    /\ \A j \in (x + 1)..Len(log) : log[j].op = "end"
    /\ N("erase") = 0
    /\ N("end") <= 1
    /\ pc \in {"end", "done"}
    /\ Returned => /\ ret = ESP_FAIL
                   /\ N("end") = (IF cbs.end THEN 1 ELSE 0)

C33_Witness ==
  /\ Returned /\ cbs.end /\ cbs.progress /\ N("end") = 1
  /\ \E x \in Failed("encode") : log[x].i >= 1 /\ N("write") = log[x].i
  /\ \E e \in Failed("end") : log[e].res = ESP_ERR_TIMEOUT

(***************************************************************************)
(* C34: without a start callback and with an end callback, every upload    *)
(* that passed the allocations and has returned has invoked end exactly    *)
(* once, after the last write, whether the stream succeeded or a read,     *)
(* encode, write or progress failed; no start has been recorded.           *)
(***************************************************************************)
C34_EndWithoutStart ==
  (~cbs.start /\ cbs.end) =>
    /\ N("start") = 0
    /\ (Returned /\ ReachedStart) =>
         /\ N("end") = 1
         /\ \A e \in Idx("end") : \A k \in 1..Len(log) :
              log[k].op \in {"read", "encode", "write", "progress"} => k < e
    /\ N("end") >= 1 => ReachedStart

C34_Witness ==
  /\ ~cbs.start /\ cbs.end /\ cbs.nonnull /\ Returned /\ N("end") = 1
  /\ Failed("progress") # {} /\ N("write") >= 2

C34_WitnessSuccess ==
  /\ ~cbs.start /\ cbs.end /\ Returned /\ N("end") = 1 /\ ret = ESP_OK
  /\ N("write") >= 2

(***************************************************************************)
(* C36: when a start, read, write, progress, end or erase step fails, the  *)
(* call returns the very status of the first step that failed; when it is  *)
(* the encoder that failed first the call returns ESP_FAIL; past the       *)
(* allocations the call returns non-OK only if some step failed.           *)
(***************************************************************************)
StepFailures == FailIdx \cup Failed("erase")
FirstStepFailure ==
  log[CHOOSE k \in StepFailures : \A j \in StepFailures : k <= j]

C36_FirstFailureReturned ==
  Returned =>
    /\ StepFailures # {} =>
         ret = (IF FirstStepFailure.op = "encode" THEN ESP_FAIL
                ELSE FirstStepFailure.res)
    /\ (ReachedStart /\ ret # ESP_OK) => StepFailures # {}

C36_Witness ==
  /\ Returned /\ ret = ESP_ERR_TIMEOUT /\ StepFailures # {}
  /\ FirstStepFailure.op = "progress" /\ FirstStepFailure.res = ESP_ERR_TIMEOUT
  /\ \E e \in Failed("end") : log[e].res = ESP_FAIL


(***************************************************************************)
(* C38: in the MQTT application part_count is the number of write calls so *)
(* far (one more per call, also when the publish fails), it never exceeds  *)
(* part_quantity, which is the chunk_count of the descriptor announced in  *)
(* the start message, and after an upload that returned OK part_count =    *)
(* part_quantity = chunk_count.                                            *)
(***************************************************************************)
Announcements == SelectSeq(published, LAMBDA m : m.topic = BaseTopic)

C39_EraseOnlyIfAllPublished ==
  app.pc \in {"uploading", "normal"} /\ app.uploads = 1 =>
    /\ EraseInvoked =>
         /\ Len(Parts) = mqtt_ctx.part_quantity
         /\ \A k \in 1..Len(Parts) : Parts[k].ok
    /\ \A k \in 1..Len(Parts) :
         ~Parts[k].ok =>
           /\ k = Len(Parts)
           /\ N("erase") = 0
           /\ pc \in {"end", "done"}
           /\ Returned => ret = ESP_FAIL
           /\ app.pc = "normal" => app.upload_ret = ESP_FAIL
    /\ \A k \in Idx("start") : log[k].res = ESP_OK

C39_Witness ==
  /\ app.pc = "normal" /\ app.upload_ret = ESP_OK /\ mqtt_ctx.part_quantity >= 3
  /\ Len(Announcements) = 1 /\ ~Announcements[1].ok
  /\ image.size = 0 /\ app.boot_image > 0

(***************************************************************************)
(* C40 as stated: in the queue-based application every receive of app_main *)
(* and every send of the MQTT event handler is made on a non-NULL queue    *)
(* handle, in every boot sequence.                                         *)
(***************************************************************************)
C40_QueueHandleNonNull ==
  \A o \in app.queue_ops : o[2] # NULL

====
